---- MODULE Spec2Model ----
(***************************************************************************)
(* Numerical core of the "entropy dominance" figures: the shared seeded    *)
(* PRNG, the KMR birth-death chain of Figure 1, the two-type replicator    *)
(* integrators and separatrix bisection, the multi-platform replicator     *)
(* update, the entropy estimators, the use of the PRNG by the figures'      *)
(* draw callbacks, and lazyDraw with the figure scripts' canvas guards.     *)
(*                                                                         *)
(* Real numbers are fixed-point integers with Scale units to 1.0.  The     *)
(* model checker's integers are 32 bits wide, so products and quotients    *)
(* of fixed-point numbers are computed limb-wise (MulFP, DivFP) and the    *)
(* 32-bit PRNG state is kept as a pair of 16-bit halves <<hi, lo>>.        *)
(***************************************************************************)
EXTENDS Integers, Sequences, FiniteSets, TLC

VARIABLES
    prog,      \* which routine this behaviour runs
    pc,        \* position inside the routine
    \* ---- shared PRNG (utils.js) ----
    seed,      \* _seed as <<high 16 bits, low 16 bits>>
    \* ---- runKMR (Figure 1) ----
    eps,       \* mutation probability, as EpsDen-ths
    T,         \* number of steps of the run
    t,         \* loop counter
    k,         \* number of agents on P1
    hist,      \* histogram, indexed 0..N
    H2,        \* entropy of platform 2 (fixed point)
    kPrev,     \* k before the last step
    draws,     \* the rand() values consumed by the last step, in order
    muts,      \* mutation steps since k last sat on a corner (0 or N)
    origin,    \* the corner k last sat on ("mid" before any)
    \* ---- two-type replicator integrators and findSep ----
    fig,       \* the figure whose routine runs (its T, dt and clamp)
    x0,        \* initial share of platform 1
    deltaH,    \* entropy advantage of platform 1
    nu,        \* network-effect strength
    gamma,     \* network-effect exponent, in tenths
    x,         \* current share of platform 1
    i,         \* loop counter
    lo,        \* bisection bracket, lower end
    hi,        \* bisection bracket, upper end
    ret,       \* value returned by the routine (0 until it returns)
    \* ---- multi-platform replicator (Figures 3 and 6) ----
    xs,        \* the vector of shares
    trial,     \* Monte Carlo trials started so far
    \* ---- entropy estimators (Figure 7) ----
    counts,    \* frequency count vector
    n,         \* sample size
    Hplug,     \* value returned by pluginH
    Hcs,       \* value returned by chaoShenH
    \* ---- use of the shared PRNG by the figures ----
    runs,      \* histogram returned by the first runKMR(eps, T), per (eps, T)
    others,    \* rand() calls made by other code since runKMR last returned
    loads,     \* number of times the page has been loaded again
    drawn,     \* figures whose draw callback has run since the page loaded
    cur,       \* figure whose draw callback is running ("none")
    didReset,  \* the running callback has called resetSeed()
    early,     \* rand() calls of the running callback before its resetSeed()
    cnt,       \* rand() calls of the running callback
    data,      \* per figure, what its callback computed from rand()
    record,    \* per figure, the data it computed in an earlier page load
    \* ---- lazyDraw and the figure scripts ----
    script,    \* kind of figure script: "lazy", "guarded" or "unguarded"
    canvas,    \* the canvas element exists in the document
    hasIO,     \* "IntersectionObserver" in window
    throws,    \* drawFn throws an exception
    near,      \* the canvas is within the root margin of the viewport
    obs,       \* the observer: "none", "observing" or "disconnected"
    queue,     \* isIntersecting of the entries queued for the observer
    calls,     \* number of calls of the draw code
    errors,    \* number of exceptions that left the script or a callback
    notes,     \* number of observer notifications delivered
    entries,   \* isIntersecting of the entries of the last notification
    seen,      \* some delivered entry reported isIntersecting
    callsPrev  \* calls before the last notification

kmrVars   == <<eps, T, t, k, hist, H2, kPrev, draws, muts, origin>>
replVars  == <<fig, x0, deltaH, nu, gamma, x, i, lo, hi, ret>>
multiVars == <<xs, trial>>
estVars   == <<counts, n, Hplug, Hcs>>
pageVars  == <<runs, others, loads, drawn, cur, didReset, early, cnt, data, record>>
lazyVars  == <<script, canvas, hasIO, throws, near, obs, queue, calls, errors, notes, entries, seen, callsPrev>>
vars == <<prog, pc, seed, kmrVars, replVars, multiVars, estVars, pageVars, lazyVars>>

-----------------------------------------------------------------------------
(* Fixed-point arithmetic *)

Limb  == 100 * 100
Scale == Limb * Limb

Abs(a) == IF a < 0 THEN -a ELSE a
Sgn(a) == IF a < 0 THEN -1 ELSE 1
Max(a, b) == IF a >= b THEN a ELSE b
Min(a, b) == IF a <= b THEN a ELSE b

\* floor(a*b/Scale) for a, b >= 0, without forming a*b
MulNat(a, b) ==
    LET a1 == a \div Limb  a0 == a % Limb
        b1 == b \div Limb  b0 == b % Limb
    IN  a1 * b1 + ((a1 * b0 + a0 * b1) + ((a0 * b0) \div Limb)) \div Limb

\* a*b in fixed point, rounded toward zero
MulFP(a, b) == Sgn(a) * Sgn(b) * MulNat(Abs(a), Abs(b))

\* floor(a*Scale/b) for a >= 0, b > 0, without forming a*Scale: long
\* division, one decimal digit of the quotient at a time
RECURSIVE LongDiv(_, _, _, _)
LongDiv(q, r, b, unit) ==
    IF unit = 1 THEN q
    ELSE LongDiv(q * 10 + (r * 10) \div b, (r * 10) % b, b, unit \div 10)

DivNat(a, b) == LongDiv(a \div b, a % b, b, Scale)

\* a/b in fixed point, rounded toward zero
DivFP(a, b) == Sgn(a) * Sgn(b) * DivNat(Abs(a), Abs(b))

\* r*r <= v in fixed point, exactly: the whole part of r*r/Scale is compared
\* first and the part MulNat drops decides a tie
SqLeq(r, v) ==
    LET r1  == r \div Limb  r0 == r % Limb
        q   == MulNat(r, r)
        rem == (((2 * r1 * r0) % Limb) * Limb + r0 * r0) % Scale
    IN  q < v \/ (q = v /\ rem = 0)

\* Math.sqrt on [0, 1]: the largest r with r*r <= v, by bisection
RECURSIVE SqrtSearch(_, _, _)
SqrtSearch(v, a, b) ==
    IF a >= b THEN a
    ELSE LET mid == (a + b + 1) \div 2
         IN  IF SqLeq(mid, v) THEN SqrtSearch(v, mid, b)
             ELSE SqrtSearch(v, a, mid - 1)

SqrtFP(v) == SqrtSearch(v, 0, Scale)

\* Math.pow(v, gm) for v in [0, 1]; gm is the exponent in tenths and is one
\* of the exponents the figures use (1.0, 1.5, 2.0, 3.0)
Pow(v, gm) ==
    CASE gm = 10 -> v
      [] gm = 15 -> MulFP(v, SqrtFP(v))
      [] gm = 20 -> MulFP(v, v)
      [] gm = 30 -> MulFP(MulFP(v, v), v)

\* 2*atanh(z) = 2*(z + z^3/3 + z^5/5 + ...), for |z| <= 1/3
RECURSIVE AtanhSeries(_, _, _)
AtanhSeries(zpow, zsq, odd) ==
    IF zpow = 0 \/ odd > 25 THEN 0
    ELSE zpow \div odd + AtanhSeries(MulFP(zpow, zsq), zsq, odd + 2)

\* Math.log(y) for y in [0.5, 1]
LnNear(y) ==
    LET z == DivNat(Scale - y, Scale + y)
    IN  -2 * AtanhSeries(z, MulFP(z, z), 1)

Ln2 == -LnNear(Scale \div 2)

\* Math.log(v) for v in (0, 1]: ln(v) = ln(2v) - ln 2 until 2v >= 0.5
RECURSIVE Ln(_)
Ln(v) == IF v < Scale \div 2 THEN Ln(2 * v) - Ln2 ELSE LnNear(v)

\* 2 * Math.PI
TwoPi == 628318531

\* cos(phi) for phi in [0, pi/2]: the power series, term by term until the
\* terms vanish
RECURSIVE CosTerms(_, _, _, _)
CosTerms(term, sq, j, sg) ==
    IF term = 0 THEN 0
    ELSE sg * term + CosTerms(MulFP(term, sq) \div ((j + 1) * (j + 2)), sq, j + 2, -sg)

CosSeries(phi) == CosTerms(Scale, MulFP(phi, phi), 0, 1)

\* Math.cos(2 * Math.PI * v) for v in [0, 1), reduced to the first quarter
\* turn by cos(2 pi (1 - v)) = cos(2 pi v) and cos(pi - a) = -cos(a)
CosTurn(v) ==
    LET w == IF v > Scale \div 2 THEN Scale - v ELSE v
    IN  IF w <= Scale \div 4 THEN CosSeries(MulFP(TwoPi, w))
        ELSE -CosSeries(MulFP(TwoPi, Scale \div 2 - w))

-----------------------------------------------------------------------------
(* Shared PRNG: seeded LCG, utils.js *)

Half == 256 * 256

LcgMul  == 1664525
LcgAdd  == 1013904223
SeedInit == 98765

Halves(w) == <<w \div Half, w % Half>>

resetSeedValue == Halves(SeedInit)

\* Mutant of resetSeed: the call leaves _seed as it is.
resetSeed_Skipped(s) == s

\* resetSeed(): _seed = 98765, whatever _seed was
resetSeed(s) == resetSeedValue

\* _seed = (Math.imul(_seed, 1664525) + 1013904223) | 0, on 16-bit halves
LcgNext(s) ==
    LET m   == Halves(LcgMul)
        c   == Halves(LcgAdd)
        p0  == s[2] * m[2] + c[2]
        low == p0 % Half
        upp == ((p0 \div Half) + s[2] * m[1] + s[1] * m[2] + c[1]) % Half
    IN  <<upp, low>>

\* rand() returns (_seed >>> 0) / 2^32; this is "that value < num/den"
RandLt(s, num, den) == s[1] * den + ((s[2] * den) \div Half) < num * Half

\* the value rand() returns, (_seed >>> 0) / 4294967296, in fixed point; s is
\* _seed after the call
RandFP(s) == DivNat(s[1], Half) + DivNat(s[2], Half) \div Half

\* _seed after c more calls of rand()
RECURSIVE Skip(_, _)
Skip(s, c) == IF c = 0 THEN s ELSE Skip(LcgNext(s), c - 1)

\* 1 - rand() is (2^32 - _seed) / 2^32: that numerator as halves, for a
\* _seed other than 0
OneMinus(s) ==
    IF s[2] > 0 THEN <<Half - 1 - s[1], Half - s[2]>> ELSE <<Half - s[1], 0>>

\* a 32-bit numerator doubled until its top bit is set, with the number of
\* doublings
RECURSIVE NormShift(_, _)
NormShift(h, e) ==
    IF h[1] >= Half \div 2 THEN <<h, e>>
    ELSE NormShift(<<2 * h[1] + (IF h[2] >= Half \div 2 THEN 1 ELSE 0),
                     (2 * h[2]) % Half>>, e + 1)

\* -Math.log(u) / 2 for u = 1 - rand(): u = y * 2^-e with y in [0.5, 1)
HalfNegLog(s) ==
    IF s = <<0, 0>> THEN 0
    ELSE LET ne == NormShift(OneMinus(s), 0)
             e  == ne[2]
             y  == RandFP(ne[1])
         IN  e * (Ln2 \div 2) + (e * (Ln2 % 2)) \div 2 + (-LnNear(y)) \div 2

\* Math.sqrt(-2 * Math.log(u)): twice the root of -log(u)/2, which is
\* brought into [0, 1] for the bisection
BoxRadius(s) ==
    LET b == HalfNegLog(s)
    IN  IF b <= Scale THEN 2 * SqrtFP(b)
        ELSE IF b <= 4 * Scale THEN 4 * SqrtFP(b \div 4)
        ELSE 8 * SqrtFP(b \div 16)

\* randn(): u = 1 - rand(), v = rand(), sqrt(-2 log u) * cos(2 pi v); s is
\* _seed before the call, which leaves _seed at Skip(s, 2)
randn(s) ==
    LET s1 == LcgNext(s)
        s2 == LcgNext(s1)
    IN  MulFP(BoxRadius(s1), CosTurn(RandFP(s2)))

-----------------------------------------------------------------------------
(* Figure 1: KMR stochastic stability (runKMR) *)

N        == 50
H1       == 2 * Scale
H2Fig    == 12 * (Scale \div 10)
kmrNu    == Scale
kmrGamma == 15

\* eps is held as a number of EpsDen-ths; epsilons are the figure's four
EpsDen   == 10 * 100
epsilons == {150, 70, 25, 6}

\* bounds of the model
MaxT    == 200
MaxMuts == 50

TSet == {MaxT \div 10, MaxT}

ZeroHist == [j \in 0..N |-> 0]

\* Mutant of uVal: the two entropies are exchanged.
uVal_Swapped(kk, isP1) ==
    LET xi == DivFP(kk, N)
    IN  IF isP1 THEN H2 + MulFP(kmrNu, Pow(xi, kmrGamma))
        ELSE H1 + MulFP(kmrNu, Pow(Scale - xi, kmrGamma))

uVal(kk, isP1) ==
    LET xi == DivFP(kk, N)
    IN  IF isP1 THEN H1 + MulFP(kmrNu, Pow(xi, kmrGamma))
        ELSE H2 + MulFP(kmrNu, Pow(Scale - xi, kmrGamma))

\* rand() < eps: the step is a mutation step
IsMutation(e, d1) == RandLt(d1, e, EpsDen)

\* Mutant of kmrStep: the mutation branch moves the count by the coin alone,
\* without looking at the platform the agent is on or at the ends of 0..N.
kmrStep_CoinOnly(kk, e, d) ==
    IF IsMutation(e, d[1])
    THEN (IF RandLt(d[2], 1, 2) THEN kk + 1 ELSE kk - 1)
    ELSE LET agentOnP1 == RandLt(d[2], kk, N)
         IN  IF agentOnP1
             THEN (IF uVal(kk, FALSE) > uVal(kk, TRUE) /\ kk > 0 THEN kk - 1 ELSE kk)
             ELSE (IF uVal(kk, TRUE) > uVal(kk, FALSE) /\ kk < N THEN kk + 1 ELSE kk)

\* Mutant of kmrStep: the best-response comparison has its sign flipped.
kmrStep_Flipped(kk, e, d) ==
    IF IsMutation(e, d[1])
    THEN LET coinP1    == RandLt(d[2], 1, 2)
             agentOnP1 == RandLt(d[3], kk, N)
         IN  IF agentOnP1 /\ ~coinP1 /\ kk > 0 THEN kk - 1
             ELSE IF ~agentOnP1 /\ coinP1 /\ kk < N THEN kk + 1
             ELSE kk
    ELSE LET agentOnP1 == RandLt(d[2], kk, N)
         IN  IF agentOnP1
             THEN (IF uVal(kk, TRUE) > uVal(kk, FALSE) /\ kk > 0 THEN kk - 1 ELSE kk)
             ELSE (IF uVal(kk, FALSE) > uVal(kk, TRUE) /\ kk < N THEN kk + 1 ELSE kk)

\* One iteration of runKMR's loop on the count kk; d = <<d1, d2, d3>> are the
\* values the successive rand() calls would return (d3 is read only by a
\* mutation step).
kmrStep(kk, e, d) ==
    LET u1 == uVal(kk, TRUE)
        u2 == uVal(kk, FALSE)
    IN  IF IsMutation(e, d[1])
        THEN LET coinP1    == RandLt(d[2], 1, 2)
                 agentOnP1 == RandLt(d[3], kk, N)
             IN  IF agentOnP1 /\ ~coinP1 /\ kk > 0 THEN kk - 1
                 ELSE IF ~agentOnP1 /\ coinP1 /\ kk < N THEN kk + 1
                 ELSE kk
        ELSE LET agentOnP1 == RandLt(d[2], kk, N)
             IN  IF agentOnP1
                 THEN (IF u2 > u1 /\ kk > 0 THEN kk - 1 ELSE kk)
                 ELSE (IF u1 > u2 /\ kk < N THEN kk + 1 ELSE kk)

\* the rand() values one iteration consumes
Consumed(e, d) == IF IsMutation(e, d[1]) THEN d ELSE <<d[1], d[2]>>

burnin(TT) == TT \div 4

\* Mutant of Record: the burn-in comparison is strict (t > burnin).
Record_Strict(h, tt, TT, kk) ==
    IF tt > burnin(TT) THEN [h EXCEPT ![kk] = @ + 1] ELSE h

\* hist[k]++ once t has reached the burn-in
Record(h, tt, TT, kk) ==
    IF tt >= burnin(TT) THEN [h EXCEPT ![kk] = @ + 1] ELSE h

\* the seeded-stochastic figures of the page
Figures == {"kmr", "chaoshen", "montecarlo"}

NoRuns == [c \in epsilons \X TSet |-> <<>>]
\* a figure's data: d, what it computed from rand(); pre, the figures whose
\* callbacks ran before its own
NoData == [f \in Figures |-> [d |-> <<>>, pre |-> {}]]

PageIdle ==
    /\ runs = NoRuns /\ others = 0 /\ loads = 0
    /\ drawn = {} /\ cur = "none" /\ didReset = FALSE /\ early = 0 /\ cnt = 0
    /\ data = NoData /\ record = NoData

LazyIdle ==
    /\ script = "none" /\ canvas = FALSE /\ hasIO = FALSE /\ throws = FALSE
    /\ near = FALSE /\ obs = "none" /\ queue = <<>>
    /\ calls = 0 /\ errors = 0 /\ notes = 0
    /\ entries = <<>> /\ seen = FALSE /\ callsPrev = 0

MultiIdle == xs = <<>> /\ trial = 0

EstIdle == counts = <<>> /\ n = 0 /\ Hplug = 0 /\ Hcs = 0

ReplIdle ==
    /\ fig = 0 /\ x0 = 0 /\ deltaH = 0 /\ nu = 0 /\ gamma = 0
    /\ x = 0 /\ i = 0 /\ lo = 0 /\ hi = 0 /\ ret = 0
    /\ MultiIdle /\ EstIdle
    /\ PageIdle /\ LazyIdle

KmrIdle ==
    /\ eps = 0 /\ T = 0 /\ t = 0 /\ k = 0 /\ hist = ZeroHist
    /\ H2 = H2Fig /\ kPrev = 0 /\ draws = <<>> /\ muts = 0 /\ origin = "mid"

\* ---- Spec: runKMR as the page runs it, on the shared LCG ----

Init ==
    /\ prog = "kmr" /\ pc = "idle"
    /\ seed = resetSeedValue
    /\ KmrIdle /\ ReplIdle

\* hists = epsilons.map(eps => runKMR(eps, T)): entry of one call
\* runKMR(eps, T) up to its loop, for eps drawn from E
EnterKMR(E) ==
    /\ pc = "idle"
    /\ \E e \in E, TT \in TSet :
         /\ eps' = e /\ T' = TT
    /\ seed' = resetSeed(seed)
    /\ k' = N \div 2
    /\ hist' = ZeroHist
    /\ t' = 0
    /\ kPrev' = N \div 2 /\ draws' = <<>>
    /\ pc' = "loop"
    /\ UNCHANGED <<prog, H2, muts, origin, replVars, multiVars, estVars, lazyVars>>

RunKMR ==
    /\ prog = "kmr"
    /\ EnterKMR(epsilons)
    /\ UNCHANGED pageVars

KmrLoop ==
    /\ prog \in {"kmr", "seed", "page"} /\ pc = "loop" /\ t < T
    /\ LET d1 == LcgNext(seed)
           d2 == LcgNext(d1)
           d3 == LcgNext(d2)
           d  == Consumed(eps, <<d1, d2, d3>>)
       IN  \E nk \in {kmrStep(k, eps, <<d1, d2, d3>>)} :
             /\ k' = nk
             /\ kPrev' = k
             /\ draws' = d
             /\ seed' = d[Len(d)]
             /\ hist' = Record(hist, t, T, nk)
    /\ t' = t + 1
    /\ UNCHANGED <<prog, pc, eps, T, H2, muts, origin, replVars, multiVars, estVars, pageVars, lazyVars>>

KmrReturn ==
    /\ prog = "kmr" /\ pc = "loop" /\ t >= T
    /\ pc' = "idle"
    /\ UNCHANGED <<prog, seed, kmrVars, replVars, multiVars, estVars, pageVars, lazyVars>>

Next == RunKMR \/ KmrLoop \/ KmrReturn

Spec == Init /\ [][Next]_vars

\* ---- SpecSeed: repeated runKMR calls with other users of rand() between ----

\* bound of the model: rand() calls other code makes between two runKMR calls
MaxOther == 2

\* the largest and the smallest of the figure's mutation probabilities
SeedEps == {150, 6}

InitSeed ==
    /\ prog = "seed" /\ pc = "idle"
    /\ seed = resetSeedValue
    /\ KmrIdle /\ ReplIdle

\* rand() called by another figure (sampleZipf, randn, initX)
OtherRand ==
    /\ prog = "seed" /\ pc = "idle" /\ others < MaxOther
    /\ seed' = LcgNext(seed)
    /\ others' = others + 1
    /\ UNCHANGED <<prog, pc, kmrVars, replVars, multiVars, estVars, lazyVars,
                   runs, loads, drawn, cur, didReset, early, cnt, data, record>>

SeedCall ==
    /\ prog = "seed"
    /\ EnterKMR(SeedEps)
    /\ others' = 0
    /\ UNCHANGED <<runs, loads, drawn, cur, didReset, early, cnt, data, record>>

\* return hist; the caller keeps the histogram of the first call per (eps, T)
SeedReturn ==
    /\ prog = "seed" /\ pc = "loop" /\ t >= T
    /\ runs' = IF runs[<<eps, T>>] = <<>>
               THEN [runs EXCEPT ![<<eps, T>>] = hist] ELSE runs
    /\ pc' = "idle"
    /\ UNCHANGED <<prog, seed, kmrVars, replVars, multiVars, estVars, lazyVars,
                   others, loads, drawn, cur, didReset, early, cnt, data, record>>

NextSeed == SeedCall \/ KmrLoop \/ OtherRand \/ SeedReturn

SpecSeed == InitSeed /\ [][NextSeed]_vars

\* ---- SpecDraws: the chain under every sequence of random draws ----

\* representative rand() values: 0, one below every positive threshold the
\* chain compares a draw with (0.003) and one above every such threshold
\* short of 1 (0.99)
DrawSet == { <<0, 0>>, <<196, 0>>, <<64880, 0>> }

EpsSet == epsilons \cup {0, EpsDen}
H2Set  == {H2Fig, H1}

\* the smallest of the figure's mutation probabilities
RadiusEps == {6}

InitDraws ==
    /\ prog = "chain" /\ pc = "loop"
    /\ seed = resetSeedValue
    /\ eps \in EpsSet /\ H2 \in H2Set
    /\ T = 0 /\ t = 0 /\ hist = ZeroHist
    /\ k = N \div 2 /\ kPrev = N \div 2 /\ draws = <<>>
    /\ muts = 0 /\ origin = "mid"
    /\ ReplIdle

ChainStep ==
    /\ prog \in {"chain", "br"} /\ pc = "loop"
    /\ \E d1 \in DrawSet, d2 \in DrawSet, d3 \in DrawSet :
         LET d == Consumed(eps, <<d1, d2, d3>>)
         IN  /\ k' = kmrStep(k, eps, <<d1, d2, d3>>)
             /\ kPrev' = k
             /\ draws' = d
             /\ seed' = d[Len(d)]
    /\ UNCHANGED <<prog, pc, eps, T, t, hist, H2, muts, origin, replVars, multiVars, estVars, pageVars, lazyVars>>

NextDraws == ChainStep

SpecDraws == InitDraws /\ [][NextDraws]_vars

\* ---- SpecBR: best-response steps only (eps = 0), the figure's parameters ----

InitBR ==
    /\ prog = "br" /\ pc = "loop"
    /\ seed = resetSeedValue
    /\ eps = 0 /\ H2 = H2Fig
    /\ T = 0 /\ t = 0 /\ hist = ZeroHist
    /\ k = N \div 2 /\ kPrev = N \div 2 /\ draws = <<>>
    /\ muts = 0 /\ origin = "mid"
    /\ ReplIdle

\* a step of the loop, below k = N, whose two rand() calls (the eps test and
\* rand() < k / N) end with the latter false: the agent selected is not on P1
SelectOffP1 ==
    /\ k < N
    /\ k' \in 0..N
    /\ draws' \in DrawSet \X DrawSet
    /\ ~RandLt(draws'[2], k, N)

NextBR == ChainStep

\* fairness: below k = N an agent that is not on P1 is selected again and again
SpecBR == InitBR /\ [][NextBR]_vars /\ WF_<<k, draws>>(SelectOffP1)

\* ---- SpecRadius: how many mutation steps separate the two corners ----

\* muts counts the mutation steps taken since k last sat on a corner (it is
\* not counted before the first visit to a corner)
InitRadius ==
    /\ prog = "radius" /\ pc = "loop"
    /\ seed = resetSeedValue
    /\ eps \in RadiusEps /\ H2 = H2Fig
    /\ T = 0 /\ t = 0 /\ hist = ZeroHist
    /\ k = N \div 2 /\ kPrev = N \div 2 /\ draws = <<>>
    /\ muts = 0 /\ origin = "mid"
    /\ ReplIdle

RadiusStep ==
    /\ prog = "radius" /\ pc = "loop"
    /\ \E d1 \in DrawSet, d2 \in DrawSet, d3 \in DrawSet :
         LET d == Consumed(eps, <<d1, d2, d3>>)
         IN  /\ IsMutation(eps, d1) => muts < MaxMuts
             /\ \E nk \in {kmrStep(k, eps, <<d1, d2, d3>>)} :
                  /\ k' = nk
                  /\ origin' = IF nk = 0 THEN "0"
                               ELSE IF nk = N THEN "N" ELSE origin
                  /\ muts' = IF nk = 0 \/ nk = N \/ origin = "mid" THEN 0
                             ELSE IF IsMutation(eps, d1) THEN muts + 1
                             ELSE muts
             /\ kPrev' = k
             /\ seed' = d[Len(d)]
    /\ UNCHANGED <<prog, pc, eps, T, t, hist, H2, draws, replVars, multiVars, estVars, pageVars, lazyVars>>

NextRadius == RadiusStep

SpecRadius == InitRadius /\ [][NextRadius]_vars

-----------------------------------------------------------------------------
(* Figures 2 and 9: two-type replicator integration (replicatorWinner) *)

\* a decimal with three digits after the point, in fixed point
Milli(m) == m * (Scale \div 1000)

\* g(x, gamma) = (1-x)^gamma - x^gamma
g(xx, gm) == Pow(Scale - xx, gm) - Pow(xx, gm)

\* Mutant of Fitness: the two network terms are added.
Fitness_Plus(xx, dh, nn, gm) == dh + MulFP(nn, Pow(xx, gm) + Pow(Scale - xx, gm))

\* the fitness difference deltaH + nu * (x^gamma - (1-x)^gamma)
Fitness(xx, dh, nn, gm) == dh + MulFP(nn, Pow(xx, gm) - Pow(Scale - xx, gm))

\* per-figure constants of replicatorWinner: time step, clamp interval and
\* the number of iterations "for (t = 0; t < T; t += dt)" makes in double
\* arithmetic (150/0.1 accumulates to one more than 1500)
Steps2 == 1501
Steps9 == 4000
\* the invasion loop of Figure 4 (T = 200, dt = 0.08) makes 2500 iterations,
\* simulate of Figure 10 makes Math.round(100 / 0.1) of them
Steps4  == 2500
Steps10 == 1000
Dt(f)      == IF f \in {2, 10} THEN Scale \div 10
              ELSE IF f = 4 THEN 8 * (Scale \div 100)
              ELSE Scale \div 20
ClampLo(f) == IF f \in {2, 4} THEN Scale \div 1000 ELSE Scale \div 10000
ClampHi(f) == Scale - ClampLo(f)
Steps(f)   == IF f = 2 THEN Steps2
              ELSE IF f = 4 THEN Steps4
              ELSE IF f = 10 THEN Steps10
              ELSE Steps9

\* Mutant of EulerStep: the drift has the wrong sign.
EulerStep_Minus(f, xx, dh, nn, gm) ==
    LET dx == MulFP(MulFP(xx, Scale - xx), Fitness(xx, dh, nn, gm))
    IN  Max(ClampLo(f), Min(ClampHi(f), xx - MulFP(dx, Dt(f))))

\* Mutant of EulerStep: the clamp is missing.
EulerStep_NoClamp(f, xx, dh, nn, gm) ==
    LET dx == MulFP(MulFP(xx, Scale - xx), Fitness(xx, dh, nn, gm))
    IN  xx + MulFP(dx, Dt(f))

\* dx = x*(1-x)*(deltaH + nu*(x^gamma - (1-x)^gamma)); x = clamp(x + dx*dt)
EulerStep(f, xx, dh, nn, gm) ==
    LET dx == MulFP(MulFP(xx, Scale - xx), Fitness(xx, dh, nn, gm))
    IN  Max(ClampLo(f), Min(ClampHi(f), xx + MulFP(dx, Dt(f))))

\* Mutant of Winner: parity is counted for platform 1.
Winner_Geq(xx) == IF xx >= Scale \div 2 THEN 1 ELSE 2

\* return x > 0.5 ? 1 : 2
Winner(xx) == IF xx > Scale \div 2 THEN 1 ELSE 2

\* inputs: the pixel grids run x0 over [0.01, 0.99] and deltaH over [0, 2]
X0Set == {Milli(10), Milli(50), Milli(200), Milli(400), Milli(500),
          Milli(600), Milli(990)}
DHSet == {0, Milli(250), Milli(500), Milli(985), Milli(1000), Milli(1250),
          Milli(2000)}

\* initial shares around parity, down to 0.5 -+ 0.0001
ParitySet == {Milli(400), Milli(499), Scale \div 2 - Limb, Scale \div 2,
              Scale \div 2 + Limb, Milli(501), Milli(600)}

KmrRest ==
    /\ seed = resetSeedValue /\ KmrIdle
    /\ PageIdle /\ LazyIdle

\* ---- findSep: bisection for the separatrix (Figures 2 and 10) ----

\* Figure 2's findSep(deltaH, nu, gamma) makes 60 iterations, Figure 10's
\* findSep(dhRatio, nu, gamma) makes 80 and bisects for dhRatio * nu
SepIters2  == 60
SepIters10 == 80
SepIters(f) == IF f = 2 THEN SepIters2 ELSE SepIters10

\* Mutant of SepNoRoot: the boundary test is strict.
SepNoRoot_Strict(f, arg, nn) == IF f = 2 THEN arg > nn ELSE arg > Scale

\* if (deltaH >= nu) return 0,  resp.  if (dhRatio >= 1.0) return 0
SepNoRoot(f, arg, nn) == IF f = 2 THEN arg >= nn ELSE arg >= Scale

SepTarget(f, arg, nn) == IF f = 2 THEN arg ELSE MulFP(arg, nn)

SepLo0 == Scale \div 1000
SepHi0 == 499 * (Scale \div 1000)

SepArgs == {0, Milli(20), Milli(250), Milli(500), Milli(800), Milli(985),
            Milli(999), Milli(1000), Milli(1250), Milli(2000)}

InitRepl ==
    /\ KmrRest
    /\ \/ /\ prog = "repl" /\ pc = "loop"
          /\ \/ fig = 2 /\ gamma \in {15, 30} /\ x0 \in X0Set /\ deltaH \in DHSet
             \/ fig = 9 /\ gamma = 15
                        /\ x0 \in {Milli(10), Milli(500), Milli(990)}
                        /\ deltaH \in {0, Milli(1000), Milli(2000)}
             \/ fig = 9 /\ gamma = 15 /\ x0 \in ParitySet /\ deltaH = 0
       \/ /\ prog = "sep" /\ pc = "entry"
          /\ \/ fig = 2 /\ gamma \in {15, 30}
             \/ fig = 10 /\ gamma \in {15, 20, 30}
          /\ deltaH \in SepArgs /\ x0 = 0
    /\ nu = Scale
    /\ x = x0 /\ i = 0 /\ lo = 0 /\ hi = 0 /\ ret = 0
    /\ MultiIdle /\ EstIdle

ReplLoop ==
    /\ prog \in {"repl", "clamp"} /\ pc = "loop" /\ i < Steps(fig)
    /\ x' = EulerStep(fig, x, deltaH, nu, gamma)
    /\ i' = i + 1
    /\ UNCHANGED <<prog, pc, seed, kmrVars, multiVars, estVars, fig, x0, deltaH, nu, gamma, lo, hi, ret, pageVars, lazyVars>>

ReplReturn ==
    /\ prog = "repl" /\ pc = "loop" /\ i >= Steps(fig)
    /\ ret' = Winner(x)
    /\ pc' = "done"
    /\ UNCHANGED <<prog, seed, kmrVars, multiVars, estVars, fig, x0, deltaH, nu, gamma, x, i, lo, hi, pageVars, lazyVars>>

\* the early return and the initial bracket [0.001, 0.499]
SepEntry ==
    /\ prog = "sep" /\ pc = "entry"
    /\ IF SepNoRoot(fig, deltaH, nu)
       THEN ret' = 0 /\ pc' = "done" /\ UNCHANGED <<lo, hi>>
       ELSE lo' = SepLo0 /\ hi' = SepHi0 /\ pc' = "loop" /\ UNCHANGED ret
    /\ UNCHANGED <<prog, seed, kmrVars, multiVars, estVars, fig, x0, deltaH, nu, gamma, x, i, pageVars, lazyVars>>

SepLoop ==
    /\ prog = "sep" /\ pc = "loop" /\ i < SepIters(fig)
    /\ LET mid == (lo + hi) \div 2
       IN  IF MulFP(nu, g(mid, gamma)) > SepTarget(fig, deltaH, nu)
           THEN lo' = mid /\ UNCHANGED hi
           ELSE hi' = mid /\ UNCHANGED lo
    /\ i' = i + 1
    /\ UNCHANGED <<prog, pc, seed, kmrVars, multiVars, estVars, fig, x0, deltaH, nu, gamma, x, ret, pageVars, lazyVars>>

SepReturn ==
    /\ prog = "sep" /\ pc = "loop" /\ i >= SepIters(fig)
    /\ ret' = (lo + hi) \div 2
    /\ pc' = "done"
    /\ UNCHANGED <<prog, seed, kmrVars, multiVars, estVars, fig, x0, deltaH, nu, gamma, x, i, lo, hi, pageVars, lazyVars>>

NextRepl == ReplLoop \/ ReplReturn \/ SepEntry \/ SepLoop \/ SepReturn

SpecRepl == InitRepl /\ [][NextRepl]_vars

\* ---- SpecCore: the KMR chain together with the two-type routines ----

InitCore == InitDraws \/ InitRepl
NextCore == NextDraws \/ NextRepl
SpecCore == InitCore /\ [][NextCore]_vars

\* ---- SpecClamp: the four Euler loops on inputs beyond the figures' ----

\* the shares, advantages and strengths the loops are started with: the
\* figures' own (x0 = 0.05 in Figure 4, 0.40 in Figure 10, deltaH = 0.91)
\* and the ends of their ranges, with a negative advantage besides
ClampX0 == {0, Milli(50), Milli(400), Scale}
ClampDH == {-Milli(2000), Milli(910), Milli(2000)}
ClampNu == {0, Milli(1000), Milli(2000)}

InitClamp ==
    /\ prog = "clamp" /\ pc = "loop"
    /\ KmrRest
    /\ fig \in {2, 4, 9, 10}
    /\ x0 \in ClampX0 /\ deltaH \in ClampDH /\ nu \in ClampNu
    /\ gamma \in {15, 30}
    /\ (nu = Milli(1000) \/ gamma = 15)
    /\ (nu = Milli(1000) \/ x0 \in {0, Milli(400)})
    /\ (x0 = Milli(50)) => fig = 4
    /\ x = x0 /\ i = 0 /\ lo = 0 /\ hi = 0 /\ ret = 0
    /\ MultiIdle /\ EstIdle

NextClamp == ReplLoop

SpecClamp == InitClamp /\ [][NextClamp]_vars

-----------------------------------------------------------------------------
(* Figures 3 and 6: multi-platform replicator update *)

RECURSIVE SumSeq(_)
SumSeq(q) == IF q = <<>> THEN 0 ELSE q[1] + SumSeq(Tail(q))

\* sum over j of a[j] * b[j] (x.reduce((s, xi, i) => s + xi * u[i], 0))
RECURSIVE DotTo(_, _, _)
DotTo(a, b, j) == IF j = 0 THEN 0 ELSE DotTo(a, b, j - 1) + MulFP(a[j], b[j])
Dot(a, b) == DotTo(a, b, Len(a))

\* per-routine constants: Figure 3 (phase portrait) and Figure 6 (Monte
\* Carlo paths and the deterministic path)
Hof(f)     == IF f = 3 THEN <<Milli(2000), Milli(1500), Milli(1000)>>
              ELSE <<Milli(2000), Milli(1800), Milli(1500), Milli(1200), Milli(800)>>
NuOf(f)    == IF f = 3 THEN Milli(1000) ELSE Milli(1200)
GammaOf(f) == 15
DtOf(f)    == IF f = 3 THEN Milli(120) ELSE Milli(100)
FloorOf(f) == IF f = 3 THEN Scale \div 1000 ELSE Scale \div 10000
sigma      == Milli(120)
PhaseSteps == 250
DetSteps   == 1000

\* u[i] = H[i] + nu * x[i]^gamma
Utility(f, v) == [j \in 1..Len(v) |-> Hof(f)[j] + MulFP(NuOf(f), Pow(v[j], GammaOf(f)))]

\* dx[i] = x[i] * (u[i] - ubar)
Drift(f, v) ==
    LET u    == Utility(f, v)
        ubar == Dot(v, u)
    IN  [j \in 1..Len(v) |-> MulFP(v[j], u[j] - ubar)]

\* noise[i] = sigma * x[i] * randn() * sqrt(dt); z[i] is the value the i-th
\* randn() call returned
Noise(f, v, z) ==
    [j \in 1..Len(v) |-> MulFP(MulFP(MulFP(sigma, v[j]), z[j]), SqrtFP(DtOf(f)))]

\* x = x.map(v => v / sum)
Normalize(v) == LET sum == SumSeq(v) IN [j \in 1..Len(v) |-> DivFP(v[j], sum)]

\* Mutant of MultiStep: the renormalization is left out.
MultiStep_NoNorm(f, v, z) ==
    LET dx    == Drift(f, v)
        noise == Noise(f, v, z)
    IN  [j \in 1..Len(v) |->
            Max(FloorOf(f), v[j] + MulFP(dx[j], DtOf(f)) + noise[j])]

\* Mutant of MultiStep: the floor Math.max(1e-4, ...) is left out.
MultiStep_NoFloor(f, v, z) ==
    LET dx    == Drift(f, v)
        noise == Noise(f, v, z)
    IN  Normalize([j \in 1..Len(v) |-> v[j] + MulFP(dx[j], DtOf(f)) + noise[j]])

\* one update: Euler step plus noise, floored, then renormalized
MultiStep(f, v, z) ==
    LET dx    == Drift(f, v)
        noise == Noise(f, v, z)
    IN  Normalize([j \in 1..Len(v) |->
            Max(FloorOf(f), v[j] + MulFP(dx[j], DtOf(f)) + noise[j])])

ZeroVec(len) == [j \in 1..len |-> 0]

\* the six starting points of the phase portrait
PhaseStarts ==
    { <<Milli(50), Milli(650), Milli(300)>>, <<Milli(50), Milli(300), Milli(650)>>,
      <<Milli(330), Milli(330), Milli(340)>>, <<Milli(500), Milli(300), Milli(200)>>,
      <<Milli(200), Milli(500), Milli(300)>>, <<Milli(100), Milli(100), Milli(800)>> }

\* starting vectors handed to simulatePath directly: the uniform one, one
\* with the max-entropy platform almost absent and one with it almost alone
PathStarts ==
    { <<Milli(200), Milli(200), Milli(200), Milli(200), Milli(200)>>,
      <<Milli(1), Milli(249), Milli(250), Milli(250), Milli(250)>>,
      <<Milli(996), Milli(1), Milli(1), Milli(1), Milli(1)>> }

\* the random start of a trial: n values of rand(), divided by their sum
\* (the sum can reach n, so both sides of the division are quartered)
initX(s) ==
    LET r   == [j \in 1..Len(Hof(6)) |-> RandFP(Skip(s, j))]
        sum == SumSeq(r)
    IN  [j \in 1..Len(r) |-> DivNat(r[j] \div 4, sum \div 4)]

\* the randn() values of one update, one per share in index order; each
\* call draws twice
NoiseDraws(s, len) == [j \in 1..len |-> randn(Skip(s, 2 * (j - 1)))]

PathSteps == 1000

\* bound of the model: Monte Carlo trials of the page that are explored
\* (NTrials is 30)
MaxTrials == 10

InitMulti ==
    /\ KmrRest
    /\ x0 = 0 /\ deltaH = 0 /\ nu = 0 /\ gamma = 0
    /\ x = 0 /\ i = 0 /\ lo = 0 /\ hi = 0 /\ ret = 0
    /\ EstIdle
    /\ trial = 0
    /\ \/ prog = "phase" /\ fig = 3 /\ pc = "loop" /\ xs \in PhaseStarts
       \/ prog = "path" /\ fig = 6 /\ pc = "loop" /\ xs \in PathStarts
       \/ prog = "path" /\ fig = 6 /\ pc = "trial" /\ xs = <<>>
       \/ prog = "det" /\ fig = 6 /\ pc = "loop" /\ xs = [j \in 1..5 |-> Scale \div 5]

\* trajectory loop of the phase portrait (250 updates)
PhaseLoop ==
    /\ prog = "phase" /\ pc = "loop" /\ i < PhaseSteps
    /\ xs' = MultiStep(fig, xs, ZeroVec(Len(xs)))
    /\ i' = i + 1
    /\ UNCHANGED <<prog, pc, seed, kmrVars, estVars, fig, x0, deltaH, nu, gamma, x, lo, hi, ret, trial, pageVars, lazyVars>>

\* one trial of the Monte Carlo figure: initX from rand(), then simulatePath
TrialStart ==
    /\ prog = "path" /\ pc = "trial" /\ trial < MaxTrials
    /\ xs' = initX(seed)
    /\ seed' = Skip(seed, Len(Hof(fig)))
    /\ trial' = trial + 1
    /\ i' = 0
    /\ pc' = "loop"
    /\ UNCHANGED <<prog, kmrVars, estVars, fig, x0, deltaH, nu, gamma, x, lo, hi, ret, pageVars, lazyVars>>

\* simulatePath: each update draws one randn() per share from the shared
\* generator and adds the noise
PathLoop ==
    /\ prog = "path" /\ pc = "loop" /\ i < PathSteps
    /\ \E z \in {NoiseDraws(seed, Len(xs))} : xs' = MultiStep(fig, xs, z)
    /\ seed' = Skip(seed, 2 * Len(xs))
    /\ i' = i + 1
    /\ UNCHANGED <<prog, pc, kmrVars, estVars, fig, x0, deltaH, nu, gamma, x, lo, hi, ret, trial, pageVars, lazyVars>>

\* simulatePath returns its path; the trial loop goes on
PathReturn ==
    /\ prog = "path" /\ pc = "loop" /\ i = PathSteps
    /\ pc' = IF trial = 0 THEN "done" ELSE "trial"
    /\ UNCHANGED <<prog, seed, kmrVars, estVars, fig, x0, deltaH, nu, gamma, x, i, lo, hi, ret, multiVars, pageVars, lazyVars>>

\* deterministic ODE loop (1000 updates)
DetLoop ==
    /\ prog = "det" /\ pc = "loop" /\ i < DetSteps
    /\ xs' = MultiStep(fig, xs, ZeroVec(Len(xs)))
    /\ i' = i + 1
    /\ UNCHANGED <<prog, pc, seed, kmrVars, estVars, fig, x0, deltaH, nu, gamma, x, lo, hi, ret, trial, pageVars, lazyVars>>

NextMulti == PhaseLoop \/ TrialStart \/ PathLoop \/ PathReturn \/ DetLoop

SpecMulti == InitMulti /\ [][NextMulti]_vars

-----------------------------------------------------------------------------
(* Figure 7: plug-in and Chao-Shen entropy estimators *)

\* Math.pow(v, e) for a whole exponent e >= 0
RECURSIVE PowInt(_, _)
PowInt(v, e) == IF e = 0 THEN Scale ELSE MulFP(PowInt(v, e - 1), v)

\* "denom < 1e-12": 1e-12 is below the resolution of the fixed point
DenomTiny(d) == d <= 0

\* pluginH(counts, n): the loop over the categories 1..j
RECURSIVE pluginTo(_, _, _)
pluginTo(c, nn, j) ==
    IF j = 0 THEN 0
    ELSE IF c[j] = 0 THEN pluginTo(c, nn, j - 1)
    ELSE LET pp == DivFP(c[j], nn)
         IN  pluginTo(c, nn, j - 1) - MulFP(pp, Ln(pp))

pluginH(c, nn) == pluginTo(c, nn, Len(c))

\* chaoShenH(counts, n): the loop over the categories 1..j
RECURSIVE chaoShenTo(_, _, _)
chaoShenTo(c, nn, j) ==
    IF j = 0 THEN 0
    ELSE IF c[j] = 0 THEN chaoShenTo(c, nn, j - 1)
    ELSE LET pp    == DivFP(c[j], nn)
             denom == Scale - PowInt(Scale - pp, nn)
         IN  IF DenomTiny(denom) THEN chaoShenTo(c, nn, j - 1)
             ELSE chaoShenTo(c, nn, j - 1) - DivFP(MulFP(pp, Ln(pp)), denom)

chaoShenH(c, nn) == chaoShenTo(c, nn, Len(c))

\* bounds of the model: number of categories and largest count
MaxCats  == 3
MaxCount == 3

\* the count vectors sampleZipf(n) can return: n = the sum of the counts
CountVecs == { c \in [1..MaxCats -> 0..MaxCount] : SumSeq(c) > 0 }

InitEst ==
    /\ prog = "est" /\ pc = "plugin"
    /\ KmrRest
    /\ fig = 7 /\ x0 = 0 /\ deltaH = 0 /\ nu = 0 /\ gamma = 0
    /\ x = 0 /\ i = 0 /\ lo = 0 /\ hi = 0 /\ ret = 0
    /\ MultiIdle
    /\ counts \in CountVecs /\ n = SumSeq(counts)
    /\ Hplug = 0 /\ Hcs = 0

\* piVals.push(pluginH(counts, n))
CallPlugin ==
    /\ prog = "est" /\ pc = "plugin"
    /\ Hplug' = pluginH(counts, n)
    /\ pc' = "chaoshen"
    /\ UNCHANGED <<prog, seed, kmrVars, replVars, multiVars, counts, n, Hcs, pageVars, lazyVars>>

\* csVals.push(chaoShenH(counts, n))
CallChaoShen ==
    /\ prog = "est" /\ pc = "chaoshen"
    /\ Hcs' = chaoShenH(counts, n)
    /\ pc' = "done"
    /\ UNCHANGED <<prog, seed, kmrVars, replVars, multiVars, counts, n, Hplug, pageVars, lazyVars>>

NextEst == CallPlugin \/ CallChaoShen

SpecEst == InitEst /\ [][NextEst]_vars

-----------------------------------------------------------------------------
(* The page: the draw callbacks of the seeded figures, in any order *)

\* const epsilons = [0.15, 0.07, 0.025, 0.006], in the order runKMR is called
EpsList == <<150, 70, 25, 6>>

\* bounds of the model: steps of a runKMR call of the page, rand() calls of
\* sampleZipf that are followed, and page loads after the first
PageT      == MaxT \div 10
MaxZipf    == 4
MaxLoads   == 1

\* rand() calls followed per callback: the first sampleZipf draws (Figure 7)
\* and the n draws of the first initX (Figure 6)
DrawsOf(f) == IF f = "montecarlo" THEN Len(Hof(6)) ELSE MaxZipf

InitPage ==
    /\ prog = "page" /\ pc = "idle"
    /\ seed = resetSeedValue
    /\ KmrIdle /\ ReplIdle

\* an observer notification runs the draw callback of a figure not drawn yet;
\* a callback runs to completion before another starts
FigEnter ==
    /\ prog = "page" /\ pc = "idle" /\ cur = "none"
    /\ \E f \in Figures \ drawn :
         /\ cur' = f
         /\ data' = [data EXCEPT ![f] = [d |-> <<>>, pre |-> drawn]]
         /\ pc' = IF f = "kmr" THEN "idle" ELSE "entry"
    /\ didReset' = FALSE /\ early' = 0 /\ cnt' = 0
    /\ UNCHANGED <<prog, seed, kmrVars, replVars, multiVars, estVars, lazyVars,
                   runs, others, loads, drawn, record>>

\* kmrChart: hists = epsilons.map(eps => runKMR(eps, T)), the next call
PageRunKMR ==
    /\ prog = "page" /\ cur = "kmr"
    /\ Len(data["kmr"].d) < Len(EpsList)
    /\ EnterKMR({EpsList[Len(data["kmr"].d) + 1]})
    /\ T' = PageT
    /\ didReset' = TRUE
    /\ UNCHANGED <<runs, others, loads, drawn, cur, early, cnt, data, record>>

\* runKMR returns its histogram; after the last call the callback is over
PageKmrReturn ==
    /\ prog = "page" /\ cur = "kmr" /\ pc = "loop" /\ t >= T
    /\ data' = [data EXCEPT !["kmr"].d = Append(@, hist)]
    /\ pc' = "idle"
    /\ IF Len(data["kmr"].d) + 1 = Len(EpsList)
       THEN cur' = "none" /\ drawn' = drawn \cup {"kmr"}
       ELSE UNCHANGED <<cur, drawn>>
    /\ UNCHANGED <<prog, seed, kmrVars, replVars, multiVars, estVars, lazyVars,
                   runs, others, loads, didReset, early, cnt, record>>

\* chaoshenChart, monteCarloChart: resetSeed() ahead of the experiments
FigReset ==
    /\ prog = "page" /\ pc = "entry"
    /\ seed' = resetSeed(seed)
    /\ didReset' = TRUE
    /\ pc' = "run"
    /\ UNCHANGED <<prog, kmrVars, replVars, multiVars, estVars, lazyVars,
                   runs, others, loads, drawn, cur, early, cnt, data, record>>

\* const u = rand() of sampleZipf, () => rand() of initX
FigRand ==
    /\ prog = "page" /\ pc = "run" /\ cnt < DrawsOf(cur)
    /\ seed' = LcgNext(seed)
    /\ data' = [data EXCEPT ![cur].d = Append(@, seed')]
    /\ cnt' = cnt + 1
    /\ early' = IF didReset THEN early ELSE early + 1
    /\ UNCHANGED <<prog, pc, kmrVars, replVars, multiVars, estVars, lazyVars,
                   runs, others, loads, drawn, cur, didReset, record>>

FigReturn ==
    /\ prog = "page" /\ pc = "run" /\ cnt >= DrawsOf(cur)
    /\ drawn' = drawn \cup {cur}
    /\ cur' = "none"
    /\ pc' = "idle"
    /\ UNCHANGED <<prog, seed, kmrVars, replVars, multiVars, estVars, lazyVars,
                   runs, others, loads, didReset, early, cnt, data, record>>

\* the page is loaded again: the scripts run anew (let _seed = 98765); the
\* data of the load that ends is kept for comparison
Reload ==
    /\ prog = "page" /\ pc = "idle" /\ cur = "none" /\ loads < MaxLoads
    /\ loads' = loads + 1
    /\ record' = [f \in Figures |->
                    IF record[f].d = <<>> /\ f \in drawn THEN data[f] ELSE record[f]]
    /\ data' = NoData
    /\ drawn' = {}
    /\ seed' = resetSeedValue
    /\ didReset' = FALSE /\ early' = 0 /\ cnt' = 0
    /\ eps' = 0 /\ T' = 0 /\ t' = 0 /\ k' = 0 /\ hist' = ZeroHist
    /\ kPrev' = 0 /\ draws' = <<>>
    /\ UNCHANGED <<prog, pc, H2, muts, origin, replVars, multiVars, estVars,
                   lazyVars, runs, others, cur>>

NextPage ==
    \/ FigEnter \/ PageRunKMR \/ KmrLoop \/ PageKmrReturn
    \/ FigReset \/ FigRand \/ FigReturn \/ Reload

SpecPage == InitPage /\ [][NextPage]_vars

-----------------------------------------------------------------------------
(* lazyDraw and the figure scripts (utils.js, the IIFE figures) *)

\* bounds of the model: entries queued between two notifications, and
\* notifications delivered
MaxEntries == 2
MaxNotes   == 3

\* the three shapes of figure script:
\*   "lazy"       lazyDraw(id, drawFn)
\*   "guarded"    IIFE with "if (!cv) return;" (recoveryChart, combinedChart,
\*                frontendChart, welfareGapChart)
\*   "unguarded"  IIFE that uses cv at once (invasionChart, rateChart)
Scripts == {"lazy", "guarded", "unguarded"}

Thrown(thr) == IF thr THEN 1 ELSE 0

\* Mutant of lazyDraw: without the fallback, the observer is constructed
\* although IntersectionObserver does not exist (a ReferenceError).
lazyDraw_NoFallback(cv, io, thr, nr) ==
    IF ~cv THEN [obs |-> "none", queue |-> <<>>, calls |-> 0, errors |-> 0]
    ELSE IF ~io THEN [obs |-> "none", queue |-> <<>>, calls |-> 0, errors |-> 1]
    ELSE [obs |-> "observing", queue |-> <<nr>>, calls |-> 0, errors |-> 0]

\* lazyDraw(canvasId, drawFn): what the call leaves behind.  observe(cv) makes
\* the browser queue a first entry with the canvas's present state.
lazyDraw(cv, io, thr, nr) ==
    IF ~cv THEN [obs |-> "none", queue |-> <<>>, calls |-> 0, errors |-> 0]
    ELSE IF ~io
         THEN [obs |-> "none", queue |-> <<>>, calls |-> 1, errors |-> Thrown(thr)]
    ELSE [obs |-> "observing", queue |-> <<nr>>, calls |-> 0, errors |-> 0]

\* Mutant of onEntries: drawFn is called on every notification.
onEntries_Any(es, thr) ==
    [obs |-> "disconnected", calls |-> 1, errors |-> Thrown(thr)]

\* Mutant of onEntries: obs.disconnect() comes after drawFn(cv), so that an
\* exception of drawFn leaves the observer connected.
onEntries_Late(es, thr) ==
    IF es[1]
    THEN [obs |-> IF thr THEN "observing" ELSE "disconnected",
          calls |-> 1, errors |-> Thrown(thr)]
    ELSE [obs |-> "observing", calls |-> 0, errors |-> 0]

\* the observer callback function(entries, obs)
onEntries(es, thr) ==
    IF es[1]
    THEN [obs |-> "disconnected", calls |-> 1, errors |-> Thrown(thr)]
    ELSE [obs |-> "observing", calls |-> 0, errors |-> 0]

\* Mutant of guardedScript: the guard is missing.
guardedScript_NoGuard(cv, thr) ==
    IF ~cv THEN [calls |-> 0, errors |-> 1]
    ELSE [calls |-> 1, errors |-> Thrown(thr)]

\* IIFE with "if (!cv) return;"
guardedScript(cv, thr) ==
    IF ~cv THEN [calls |-> 0, errors |-> 0]
    ELSE [calls |-> 1, errors |-> Thrown(thr)]

\* IIFE whose second statement is cv.getContext("2d"): a TypeError on null
unguardedScript(cv, thr) ==
    IF ~cv THEN [calls |-> 0, errors |-> 1]
    ELSE [calls |-> 1, errors |-> Thrown(thr)]

InitLazy ==
    /\ prog = "lazy" /\ pc = "load"
    /\ seed = resetSeedValue /\ KmrIdle /\ PageIdle
    /\ fig = 0 /\ x0 = 0 /\ deltaH = 0 /\ nu = 0 /\ gamma = 0
    /\ x = 0 /\ i = 0 /\ lo = 0 /\ hi = 0 /\ ret = 0
    /\ MultiIdle /\ EstIdle
    /\ script \in Scripts
    /\ canvas \in BOOLEAN /\ hasIO \in BOOLEAN /\ throws \in BOOLEAN
    /\ near \in BOOLEAN
    /\ obs = "none" /\ queue = <<>>
    /\ calls = 0 /\ errors = 0 /\ notes = 0
    /\ entries = <<>> /\ seen = FALSE /\ callsPrev = 0

RunLazyDraw ==
    /\ prog = "lazy" /\ pc = "load" /\ script = "lazy"
    /\ LET r == lazyDraw(canvas, hasIO, throws, near)
       IN  /\ obs' = r.obs /\ queue' = r.queue
           /\ calls' = r.calls /\ errors' = r.errors
    /\ pc' = "returned"
    /\ UNCHANGED <<prog, seed, kmrVars, replVars, multiVars, estVars, pageVars,
                   script, canvas, hasIO, throws, near, notes, entries, seen, callsPrev>>

RunGuarded ==
    /\ prog = "lazy" /\ pc = "load" /\ script = "guarded"
    /\ LET r == guardedScript(canvas, throws)
       IN  calls' = r.calls /\ errors' = r.errors
    /\ pc' = "returned"
    /\ UNCHANGED <<prog, seed, kmrVars, replVars, multiVars, estVars, pageVars,
                   script, canvas, hasIO, throws, near, obs, queue, notes,
                   entries, seen, callsPrev>>

RunUnguarded ==
    /\ prog = "lazy" /\ pc = "load" /\ script = "unguarded"
    /\ LET r == unguardedScript(canvas, throws)
       IN  calls' = r.calls /\ errors' = r.errors
    /\ pc' = "returned"
    /\ UNCHANGED <<prog, seed, kmrVars, replVars, multiVars, estVars, pageVars,
                   script, canvas, hasIO, throws, near, obs, queue, notes,
                   entries, seen, callsPrev>>

\* the user scrolls: the canvas enters or leaves the root margin, and the
\* browser queues an entry for an observer that observes it
Scroll ==
    /\ prog = "lazy" /\ pc = "returned" /\ canvas
    /\ obs = "observing" => Len(queue) < MaxEntries
    /\ near' = ~near
    /\ queue' = IF obs = "observing" THEN Append(queue, ~near) ELSE queue
    /\ UNCHANGED <<prog, pc, seed, kmrVars, replVars, multiVars, estVars, pageVars,
                   script, canvas, hasIO, throws, obs, calls, errors, notes,
                   entries, seen, callsPrev>>

\* the browser delivers the queued entries to the observer callback
Notify ==
    /\ prog = "lazy" /\ pc = "returned"
    /\ obs = "observing" /\ queue # <<>> /\ notes < MaxNotes
    /\ LET r == onEntries(queue, throws)
       IN  /\ obs' = r.obs
           /\ calls' = calls + r.calls
           /\ errors' = errors + r.errors
    /\ entries' = queue
    /\ queue' = <<>>
    /\ notes' = notes + 1
    /\ seen' = (seen \/ \E j \in 1..Len(queue) : queue[j])
    /\ callsPrev' = calls
    /\ UNCHANGED <<prog, pc, seed, kmrVars, replVars, multiVars, estVars, pageVars,
                   script, canvas, hasIO, throws, near>>

NextLazy == RunLazyDraw \/ RunGuarded \/ RunUnguarded \/ Scroll \/ Notify

SpecLazy == InitLazy /\ [][NextLazy]_vars

-----------------------------------------------------------------------------
(* Properties of the KMR chain *)

RECURSIVE SumTo(_, _)
SumTo(h, j) == IF j < 0 THEN 0 ELSE h[j] + SumTo(h, j - 1)
SumHist(h) == SumTo(h, N)

\* C1: runKMR is a birth-death chain on 0..N: it starts at floor(N/2), and
\* after every step, whatever eps and the draws, k lies in 0..N and differs
\* from its value before the step by at most 1.
C1_BirthDeath ==
    prog = "chain" =>
        /\ draws = <<>> => k = N \div 2
        /\ k \in 0..N
        /\ Abs(k - kPrev) <= 1

\* the chain has walked down to the lower end of 0..N
C1_Witness == prog = "chain" /\ draws # <<>> /\ kPrev = 1 /\ k = 0

\* C2: a step is a mutation step (three draws) exactly when the first draw is
\* below eps, and a best-response step (two draws) otherwise.  A best-response
\* step lowers k only if the selected agent is on P1 and u2 > u1, raises it
\* only if the agent is on P2 and u1 > u2, and leaves it alone when u1 = u2;
\* a mutation step changes k only when the coin-flip platform differs from
\* the platform the agent is on.
C2_StepKinds ==
    (prog = "chain" /\ draws # <<>>) =>
        LET u1 == uVal(kPrev, TRUE)
            u2 == uVal(kPrev, FALSE)
        IN  /\ Len(draws) = 3 <=> RandLt(draws[1], eps, EpsDen)
            /\ Len(draws) = 2 =>
                 LET agentOnP1 == RandLt(draws[2], kPrev, N)
                 IN  /\ k < kPrev => agentOnP1 /\ u2 > u1
                     /\ k > kPrev => ~agentOnP1 /\ u1 > u2
                     /\ u1 = u2 => k = kPrev
            /\ Len(draws) = 3 =>
                 LET coinP1    == RandLt(draws[2], 1, 2)
                     agentOnP1 == RandLt(draws[3], kPrev, N)
                 IN  k # kPrev => coinP1 # agentOnP1

\* a best-response step with the figure's entropies has lowered k
C2_Witness ==
    /\ prog = "chain" /\ H2 = H2Fig
    /\ Len(draws) = 2 /\ k = kPrev - 1

\* best-response moves from a count j, when the right agent is selected
BRDown(j) == kmrStep(j, 0, <<<<196, 0>>, <<196, 0>>, <<196, 0>>>>) = j - 1
BRUp(j)   == kmrStep(j, 0, <<<<64880, 0>>, <<64880, 0>>, <<64880, 0>>>>) = j + 1

\* best-response steps lead from kk down to 0, resp. up to N
InBasin0(kk) == \A j \in 1..kk : BRDown(j)
InBasinN(kk) == \A j \in kk..(N - 1) : BRUp(j)

\* mutation steps needed from k = 0 to reach the basin of k = N
MutsUp == CHOOSE m \in 0..N : InBasinN(m) /\ \A j \in 0..(m - 1) : ~InBasinN(j)

\* C3: with the figure's parameters, best-response steps never leave k = N,
\* and every way from k = N into the basin of k = 0 takes more mutation steps
\* than the MutsUp that lead from k = 0 into the basin of k = N.
C3_MaxEntropyCorner ==
    prog = "radius" =>
        /\ k = N => \A d \in DrawSet : kmrStep(k, 0, <<d, d, d>>) = N
        /\ (origin = "N" /\ k < N /\ InBasin0(k)) => muts > MutsUp

\* from k = 0 the chain is in the basin of k = N after MutsUp mutation steps
C3_Witness ==
    /\ prog = "radius" /\ origin = "0"
    /\ k > 0 /\ InBasinN(k) /\ muts = MutsUp

\* from k = N the chain has reached the basin of k = 0
C3_WitnessDown == prog = "radius" /\ origin = "N" /\ k < N /\ InBasin0(k)

\* C4: the histogram has N+1 bins; a step t below floor(T/4) increments no
\* bin, a step t from floor(T/4) on increments exactly the bin of the count
\* the step reached, by one; so the returned bins sum to T - floor(T/4).
C4_Histogram ==
    /\ [](prog = "kmr" =>
            /\ DOMAIN hist = 0..N
            /\ SumHist(hist) = Max(0, t - (T \div 4)))
    /\ [][(prog = "kmr" /\ pc = "loop" /\ t' = t + 1) =>
            /\ t < T \div 4 => hist' = hist
            /\ t >= T \div 4 => hist' = [hist EXCEPT ![k'] = @ + 1]]_vars
    /\ [][(prog = "kmr" /\ pc = "loop" /\ pc' = "idle") =>
            SumHist(hist') = T - (T \div 4)]_vars

\* a run has returned a histogram with several occupied bins
C4_Witness ==
    /\ prog = "kmr" /\ pc = "idle" /\ T = MaxT
    /\ SumHist(hist) = T - (T \div 4)
    /\ Cardinality({j \in 0..N : hist[j] > 0}) > 1

-----------------------------------------------------------------------------
(* Properties of the two-type routines *)

\* resolution to which the model locates a root: Scale has eight decimal
\* digits, the tolerance keeps the last one for the rounding of Pow
SepTol == Scale \div (Limb * 1000)

\* C6: for 0 <= deltaH < nu, findSep returns the equilibrium share in
\* (0, 0.5]: the fitness difference changes sign within the final bracket
\* (widened by the model's resolution) around the returned value.
C6_FindSepRoot ==
    (prog = "sep" /\ pc = "done" /\ 0 <= deltaH /\ ~SepNoRoot(fig, deltaH, nu)) =>
        LET w  == (hi - lo) + SepTol
            dh == SepTarget(fig, deltaH, nu)
        IN  /\ 0 < ret /\ ret <= Scale \div 2
            /\ Fitness(Max(0, ret - w), dh, nu, gamma) <= 0
            /\ Fitness(Min(Scale \div 2, ret + w), dh, nu, gamma) >= 0

\* what holds of the code: the same, when the root lies in the initial
\* bracket [0.001, 0.499]
C6_InBracket ==
    (prog = "sep" /\ pc = "done" /\ ~SepNoRoot(fig, deltaH, nu)
       /\ Fitness(SepLo0, SepTarget(fig, deltaH, nu), nu, gamma) <= 0
       /\ Fitness(SepHi0, SepTarget(fig, deltaH, nu), nu, gamma) >= 0) =>
        LET w  == (hi - lo) + SepTol
            dh == SepTarget(fig, deltaH, nu)
        IN  /\ 0 < ret /\ ret <= Scale \div 2
            /\ Fitness(Max(0, ret - w), dh, nu, gamma) <= 0
            /\ Fitness(Min(Scale \div 2, ret + w), dh, nu, gamma) >= 0

\* C7: for x0 < 0.5, replicatorWinner returns 1 if and only if
\* deltaH > nu * ((1-x0)^gamma - x0^gamma).
C7_Threshold ==
    (prog = "repl" /\ pc = "done" /\ x0 < Scale \div 2) =>
        (ret = 1 <=> deltaH > MulFP(nu, g(x0, gamma)))

\* the direction that holds of the code: a win of platform 1 from x0 < 0.5
\* implies deltaH above the threshold
C7_OnlyIf ==
    (prog = "repl" /\ pc = "done" /\ x0 < Scale \div 2 /\ ret = 1) =>
        deltaH > MulFP(nu, g(x0, gamma))

\* C8: when deltaH >= nu, findSep returns 0 and replicatorWinner returns 1
\* for every x0 in [0.01, 0.99].
C8_TotalDominance ==
    /\ (prog = "sep" /\ pc = "done" /\ deltaH >= nu) => ret = 0
    /\ (prog = "repl" /\ pc = "done" /\ deltaH >= nu
          /\ Milli(10) <= x0 /\ x0 <= Milli(990)) => ret = 1

\* the slowest case: deltaH = nu from the smallest initial share
C8_Witness ==
    /\ prog = "repl" /\ pc = "done" /\ fig = 2 /\ gamma = 15
    /\ deltaH = nu /\ x0 = Milli(10) /\ ret = 1

\* findSep has taken its early return on the boundary deltaH = nu
C8_WitnessSep == prog = "sep" /\ pc = "done" /\ deltaH = nu /\ ret = 0

\* C9: at equal shares the network terms cancel: at x = 0.5 the two-type
\* fitness difference equals deltaH, at k = N/2 the chain has
\* u1 - u2 = H1 - H2, and with H1 > H2 a best-response step taken at
\* k = N/2 does not lower k.
C9_EqualShare ==
    /\ (prog = "repl" /\ x = Scale \div 2) =>
          Fitness(x, deltaH, nu, gamma) = deltaH
    /\ (prog = "chain" /\ draws # <<>> /\ 2 * kPrev = N) =>
          /\ uVal(kPrev, TRUE) - uVal(kPrev, FALSE) = H1 - H2
          /\ (H1 > H2 /\ Len(draws) = 2) => k >= kPrev

\* a best-response step taken at k = N/2 with H1 > H2 (it raised k)
C9_Witness ==
    /\ prog = "chain" /\ H1 > H2 /\ 2 * kPrev = N
    /\ Len(draws) = 2 /\ k = kPrev + 1

\* the integrator sits at x = 0.5 with a positive entropy advantage
C9_WitnessRepl == prog = "repl" /\ x = Scale \div 2 /\ deltaH > 0

-----------------------------------------------------------------------------
(* Properties of the multi-platform update *)

\* C5: after every update the shares are renormalized to sum to one (to
\* within one unit of the last digit per share, lost in the divisions) and
\* every share is strictly positive.
C5_Renormalized ==
    (prog \in {"phase", "path", "det"} /\ i > 0) =>
        /\ Scale - Len(xs) <= SumSeq(xs) /\ SumSeq(xs) <= Scale
        /\ \A j \in 1..Len(xs) : xs[j] > 0

\* a Monte Carlo trial of the page, started from rand() and driven by
\* randn(), in which a share has been driven down to the floor and is still
\* positive
C5_Witness ==
    /\ prog = "path" /\ trial > 0 /\ i > 0
    /\ \E j \in 1..Len(xs) : 0 < xs[j] /\ xs[j] < FloorOf(fig) + FloorOf(fig)

-----------------------------------------------------------------------------
(* Properties of the entropy estimators *)

\* number of categories observed exactly once
Singletons(c) == Cardinality({j \in 1..Len(c) : c[j] = 1})

\* sample coverage C = 1 - f1/n
Coverage(c, nn) == Scale - DivFP(Singletons(c), nn)

\* the Chao-Shen estimator: sum over the observed categories of
\* -(C*p) ln(C*p) / (1 - (1 - C*p)^n)
RECURSIVE ChaoShenSum(_, _, _)
ChaoShenSum(c, nn, j) ==
    IF j = 0 THEN 0
    ELSE IF c[j] = 0 THEN ChaoShenSum(c, nn, j - 1)
    ELSE LET pa == MulFP(Coverage(c, nn), DivFP(c[j], nn))
         IN  ChaoShenSum(c, nn, j - 1)
               - DivFP(MulFP(pa, Ln(pa)), Scale - PowInt(Scale - pa, nn))

\* the naive estimator: sum over the observed categories of -p ln p
RECURSIVE PlugInSum(_, _, _)
PlugInSum(c, nn, j) ==
    IF j = 0 THEN 0
    ELSE (IF c[j] = 0 THEN 0 ELSE -MulFP(DivFP(c[j], nn), Ln(DivFP(c[j], nn))))
           + PlugInSum(c, nn, j - 1)

\* agreement of two estimates up to the rounding of the fixed point
EstTol == Scale \div (Limb * 10)

\* C10: chaoShenH returns the coverage-adjusted Chao-Shen sum and pluginH the
\* naive sum (stated where the coverage is positive, so that ln(C*p) exists).
C10_Estimators ==
    (prog = "est" /\ pc = "done" /\ Singletons(counts) < n) =>
        /\ Abs(Hplug - PlugInSum(counts, n, Len(counts))) <= EstTol
        /\ Abs(Hcs - ChaoShenSum(counts, n, Len(counts))) <= EstTol

\* what holds of the code: the two agree when no category is a singleton
\* (then C = 1), and the plug-in estimator is the naive sum
C10_NoSingletons ==
    (prog = "est" /\ pc = "done") =>
        /\ Abs(Hplug - PlugInSum(counts, n, Len(counts))) <= EstTol
        /\ Singletons(counts) = 0 =>
              Abs(Hcs - ChaoShenSum(counts, n, Len(counts))) <= EstTol

\* C18: with eps = 0 and the figure's parameters, from k = floor(N/2) the
\* count never decreases and, agents off P1 being selected again and again,
\* it reaches N and stays there.
C18_Absorbed ==
    /\ [][prog = "br" => k' >= k]_vars
    /\ (prog = "br") => <>[](k = N)

\* the chain sits at k = N after a step taken at k = N
C18_Witness ==
    /\ prog = "br" /\ k = N /\ kPrev = N /\ Len(draws) = 2

\* the clamp interval of each figure
IntervalLo(f) == IF f \in {2, 4} THEN Milli(1) ELSE Milli(1) \div 10
IntervalHi(f) == IF f \in {2, 4} THEN Milli(999) ELSE Milli(999) + 9 * (Milli(1) \div 10)

\* C19: in the two-type Euler loops of Figures 2, 4, 9 and 10, after every
\* step x lies in the figure's clamp interval, [0.001, 0.999] in Figures 2
\* and 4 and [0.0001, 0.9999] in Figures 9 and 10.
C19_Clamped ==
    (prog = "clamp" /\ i > 0) =>
        /\ IntervalLo(fig) <= x
        /\ x <= IntervalHi(fig)

\* a run of Figure 10's simulate that was pushed onto the lower end, and
\* started outside the interval
C19_Witness ==
    /\ prog = "clamp" /\ fig = 10 /\ i = Steps(fig)
    /\ x0 = 0 /\ x = IntervalLo(fig)

\* a run of Figure 4's loop that ended on the upper end
C19_WitnessUp ==
    /\ prog = "clamp" /\ fig = 4 /\ i = Steps(fig)
    /\ x0 = Milli(50) /\ x = IntervalHi(fig)

\* C20: with deltaH = 0 the initial share alone decides: replicatorWinner
\* returns 1 for x0 > 0.5 and 2 for x0 <= 0.5, and from x0 = 0.5 the share
\* stays at 0.5 for the whole run.
C20_ParityLimit ==
    (prog = "repl" /\ deltaH = 0) =>
        /\ pc = "done" => ret = (IF x0 > Scale \div 2 THEN 1 ELSE 2)
        /\ x0 = Scale \div 2 => x = Scale \div 2

\* a run of Figure 9 from parity has returned 2
C20_Witness ==
    /\ prog = "repl" /\ fig = 9 /\ deltaH = 0 /\ x0 = Scale \div 2
    /\ pc = "done" /\ i = Steps(fig) /\ ret = 2

\* a run from just above parity has escaped to the upper end and returned 1
C20_WitnessAbove ==
    /\ prog = "repl" /\ fig = 9 /\ deltaH = 0 /\ x0 = Milli(501)
    /\ pc = "done" /\ x = ClampHi(fig) /\ ret = 1

-----------------------------------------------------------------------------
(* Properties of the shared PRNG *)

\* the first three values rand() returns after resetSeed()
FirstDraws ==
    LET d1 == LcgNext(resetSeedValue)
        d2 == LcgNext(d1)
    IN  <<d1, d2, LcgNext(d2)>>

\* C11: after resetSeed() the values rand() returns are the same every time
\* (the first step of every run consumes the same first values), and a call
\* of runKMR returns the histogram the first call with the same (eps, T)
\* returned.
C11_Reproducible ==
    (prog = "seed" /\ pc = "loop") =>
        /\ t = 1 => draws = SubSeq(FirstDraws, 1, Len(draws))
        /\ t >= T => runs[<<eps, T>>] \in {<<>>, hist}

\* a second call with the same (eps, T) returns, after other code has used
\* rand() in between, leaving _seed elsewhere than a first call found it
C11_Witness ==
    /\ prog = "seed" /\ pc = "loop" /\ t >= T
    /\ runs[<<eps, T>>] = hist
    /\ \E c \in epsilons \X TSet : c # <<eps, T>> /\ runs[c] # <<>>

\* C12: the figures do not interact through _seed: what a figure computes
\* from rand() is what it computed in an earlier load of the page, whichever
\* figures ran before it, and no callback calls rand() ahead of resetSeed().
C12_NoInterference ==
    prog = "page" =>
        /\ early = 0
        /\ \A f \in drawn : record[f].d \in {<<>>, data[f].d}

\* a figure has computed the same data after different predecessors
C12_Witness ==
    /\ prog = "page"
    /\ \E f \in drawn :
         /\ data[f].d # <<>> /\ record[f].d = data[f].d
         /\ record[f].pre # data[f].pre

\* the same for the histograms of Figure 1, after both other figures
C12_WitnessKmr ==
    /\ prog = "page" /\ "kmr" \in drawn
    /\ Len(data["kmr"].d) = Len(EpsList)
    /\ record["kmr"].d = data["kmr"].d
    /\ record["kmr"].pre = {} /\ data["kmr"].pre = Figures \ {"kmr"}

-----------------------------------------------------------------------------
(* Properties of lazyDraw and the figure scripts *)

\* C13: with IntersectionObserver available, lazyDraw itself does not call
\* drawFn, and drawFn is not called before a notification has reported
\* isIntersecting.
C13_Deferred ==
    (prog = "lazy" /\ script = "lazy" /\ hasIO) =>
        /\ notes = 0 => calls = 0
        /\ calls > 0 => seen

\* drawn at a later notification than the first one, which reported the
\* canvas out of view
C13_Witness ==
    /\ prog = "lazy" /\ script = "lazy" /\ hasIO /\ canvas
    /\ notes = 2 /\ calls = 1 /\ callsPrev = 0 /\ seen

\* C14: with the canvas present and IntersectionObserver unavailable,
\* lazyDraw has called drawFn exactly once when it returns, and there is no
\* observer (so no later call either).
C14_Fallback ==
    (prog = "lazy" /\ script = "lazy" /\ canvas /\ ~hasIO /\ pc = "returned") =>
        /\ calls = 1
        /\ obs = "none" /\ queue = <<>> /\ notes = 0

\* the fallback has drawn, and the canvas has since moved
C14_Witness ==
    /\ prog = "lazy" /\ script = "lazy" /\ canvas /\ ~hasIO /\ pc = "returned"
    /\ calls = 1 /\ near

\* C15: a figure script whose canvas is missing returns without running its
\* draw code, without an observer and without raising an error.
C15_MissingCanvas ==
    (prog = "lazy" /\ ~canvas /\ pc = "returned") =>
        /\ calls = 0
        /\ obs = "none"
        /\ errors = 0

\* what holds of the code: the scripts that go through lazyDraw or carry the
\* guard "if (!cv) return;" are safe
C15_GuardedScripts ==
    (prog = "lazy" /\ ~canvas /\ pc = "returned" /\ script # "unguarded") =>
        /\ calls = 0
        /\ obs = "none"
        /\ errors = 0

\* C16: a notification that contains an entry reporting isIntersecting, for
\* a canvas not drawn yet, calls drawFn during that notification.
C16_DrawnWhenNear ==
    (/\ prog = "lazy" /\ script = "lazy" /\ notes > 0
     /\ callsPrev = 0
     /\ \E j \in 1..Len(entries) : entries[j]) =>
        calls = callsPrev + 1

\* what holds of the code: drawFn is called when the first entry of the
\* notification reports isIntersecting
C16_FirstEntry ==
    (/\ prog = "lazy" /\ script = "lazy" /\ notes > 0
     /\ callsPrev = 0
     /\ entries[1]) =>
        calls = callsPrev + 1

\* C17: drawFn is called at most once per registration, and once it has been
\* called through the observer the observer is disconnected, also when
\* drawFn threw.
C17_AtMostOnce ==
    (prog = "lazy" /\ script = "lazy") =>
        /\ calls <= 1
        /\ (calls = 1 /\ hasIO) => (obs = "disconnected" /\ queue = <<>>)

\* drawFn threw in the notification that called it; the canvas is out of
\* view again and nothing is queued
C17_Witness ==
    /\ prog = "lazy" /\ script = "lazy" /\ hasIO
    /\ calls = 1 /\ throws /\ errors = 1
    /\ obs = "disconnected" /\ entries = <<TRUE>> /\ ~near

====
